---- MODULE Spec2Model ----
(***************************************************************************)
(* Model of lazy-sort (src/src/lib.rs): the two lazy sorting iterators     *)
(* QuickSort (QuickSortInternal = Base | Recursive) and HeapSort, stepped  *)
(* by next() calls from the state built by quick_sort() / heap_sort().     *)
(*                                                                         *)
(* Vec<T> is a sequence (index i of the code is position i+1 here),        *)
(* Option<T> is <<>> (None) or <<x>> (Some(x)), T is the integers.         *)
(***************************************************************************)
EXTENDS Integers, Sequences, FiniteSets, TLC

\* ---------------------------------------------------------------- bounds
MaxLen == 4
MaxVal == 3
MaxSmallThreshold == 2
ExtraCalls == 2

\* the literal 32 of QuickSortInternal::new
Threshold == 32

\* thresholds the iterator is built with: the code's own one and small ones
\* that put short inputs on the Recursive path
Thresholds == (0..MaxSmallThreshold) \cup {Threshold}

\* ------------------------------------------------------------ Option<T>
None == <<>>

Some(x) == <<x>>

is_some(o) == o # None

\* ---------------------------------------------------------------- inputs
\* the vector of the tests test_sort, test_size_hint, heap_sort
TestVec == <<2, 4, 2, 5, 8, 4, 3, 4, 6>>

SeqsUpTo(n) == UNION {[1..k -> 1..MaxVal] : k \in 0..n}

\* inputs at and above the threshold 32 of the code
Long32 == [i \in 1..Threshold |-> ((i * 7) % 5) + 1]

Long33 == [i \in 1..(Threshold + 1) |-> ((i * 11) % 7) + 1]

\* the middle element is the maximum: the first split leaves a child of 35
Long36 == [i \in 1..(Threshold + 4) |-> IF i = 19 THEN 9 ELSE ((i * 5) % 6) + 1]

LongInputs == {Long32, Long33, Long36}

\* ------------------------------------------------------------------ Ord
\* Ord::cmp of the element type
Cmp(a, b) == IF a < b THEN "Less" ELSE IF a > b THEN "Greater" ELSE "Equal"

\* mutant: the comparator is not reversed
compare_natural(a, b) == Cmp(a, b)

\* the comparator |a, b| b.cmp(a) handed to insertion_sort
compare(a, b) == Cmp(b, a)

\* mutant: the predicate selects the smaller elements
pred_less(el, pivot) == el < pivot

\* mutant: the predicate also selects the elements equal to the pivot
pred_ge(el, pivot) == el >= pivot

\* the predicate |el| el > pivot handed to partition
pred(el, pivot) == el > pivot

\* ------------------------------------------------------------ Vec<T>
\* mutant: a copy instead of an exchange
swap_overwrite(v, i, j) == [v EXCEPT ![i + 1] = v[j + 1]]

\* Vec::swap(i, j), 0-based indices
swap(v, i, j) == [v EXCEPT ![i + 1] = v[j + 1], ![j + 1] = v[i + 1]]

\* Vec::pop
pop(v) ==
  IF v = <<>> THEN [ret |-> None, v |-> v]
  ELSE [ret |-> Some(v[Len(v)]), v |-> SubSeq(v, 1, Len(v) - 1)]

\* Vec::split_off(at): the tail [at, len); the vector keeps [0, at)
split_off(v, at) == [tail |-> SubSeq(v, at + 1, Len(v)), v |-> SubSeq(v, 1, at)]

\* ------------------------------------------------------- insertion_sort
RECURSIVE find_insert_nonstrict(_, _, _)
\* mutant: the scan also passes elements that compare Equal
find_insert_nonstrict(v, i, j) ==
  IF j > 0 /\ compare(v[i + 1], v[j]) # "Greater" THEN find_insert_nonstrict(v, i, j - 1) ELSE j

RECURSIVE find_insert(_, _, _)
\* the while loop: j moves left while v[i] compares Less than v[j - 1]
find_insert(v, i, j) ==
  IF j > 0 /\ compare(v[i + 1], v[j]) = "Less" THEN find_insert(v, i, j - 1) ELSE j

\* ptr::read / ptr::copy / copy_nonoverlapping: v[i] moves to j, v[j..i) shifts right
shift_insert(v, i, j) ==
  IF i # j
  THEN SubSeq(v, 1, j) \o <<v[i + 1]>> \o SubSeq(v, j + 1, i) \o SubSeq(v, i + 2, Len(v))
  ELSE v

RECURSIVE insertion_loop(_, _)
\* for i in 1..len
insertion_loop(v, i) ==
  IF i < Len(v) THEN insertion_loop(shift_insert(v, i, find_insert(v, i, i)), i + 1) ELSE v

\* mutant: the loop starts at 2
insertion_sort_from_two(v) == insertion_loop(v, 2)

insertion_sort(v) == insertion_loop(v, 1)

RECURSIVE insertion_loop_tracked(_, _, _)
\* the same loop on v, with the original position of every element carried
\* along in pos through the same shifts
insertion_loop_tracked(v, pos, i) ==
  IF i < Len(v)
  THEN LET j == find_insert(v, i, i)
       IN insertion_loop_tracked(shift_insert(v, i, j), shift_insert(pos, i, j), i + 1)
  ELSE [v |-> v, pos |-> pos]

\* insertion_sort with the original positions tracked
insertion_sort_tracked(v) == insertion_loop_tracked(v, [k \in 1..Len(v) |-> k], 1)

\* ------------------------------------------------------------ partition
RECURSIVE partition_back(_, _, _, _, _)
RECURSIVE partition_main(_, _, _, _, _)
\* the inner loop: take elements from the back until one satisfies pred
partition_back(v, pivot, front, b, split_index) ==
  IF front + 1 >= b THEN [v |-> v, split_index |-> split_index]
  ELSE IF pred(v[b], pivot)
       THEN partition_main(swap(v, front, b - 1), pivot, front + 1, b - 1, split_index + 1)
       ELSE partition_back(v, pivot, front, b - 1, split_index)

\* 'main: f is the next front index, b the end (exclusive) of the unvisited range
partition_main(v, pivot, f, b, split_index) ==
  IF f >= b THEN [v |-> v, split_index |-> split_index]
  ELSE IF ~pred(v[f + 1], pivot)
       THEN partition_back(v, pivot, f, b, split_index)
       ELSE partition_main(v, pivot, f + 1, b, split_index + 1)

\* partition(rest, |el| el > pivot): elements satisfying pred first, returns their count
partition(rest, pivot) == partition_main(rest, pivot, 0, Len(rest), 0)

\* ------------------------------------------------------- QuickSortInternal
Base(v) == [kind |-> "Base", v |-> v]

\* mutant: the pool is sorted at construction
Recursive_new_sorted(v) == [kind |-> "Recursive", greater |-> insertion_sort(v), less |-> None]

\* Recursive::new
Recursive_new(v) == [kind |-> "Recursive", greater |-> v, less |-> None]

\* mutant: a small pool is stored without being sorted
QuickSortInternal_new_unsorted(v, th) ==
  IF Len(v) <= th THEN Base(v) ELSE Recursive_new(v)

\* mutant: a pool of exactly th elements is not sorted as a Base
QuickSortInternal_new_strict(v, th) ==
  IF Len(v) < th THEN Base(insertion_sort(v)) ELSE Recursive_new(v)

\* QuickSortInternal::new with the threshold th (32 in the code)
QuickSortInternal_new(v, th) ==
  IF Len(v) <= th THEN Base(insertion_sort(v)) ELSE Recursive_new(v)

\* mutant: the empty pool links an empty child
split_greater_empty_child(r) ==
  [ret |-> None, node |-> [r EXCEPT !.less = Some(Base(<<>>))], passes |-> <<>>]

\* split_greater, arm 0 => None
split_greater_empty(r) == [ret |-> None, node |-> r, passes |-> <<>>]

\* split_greater, arm 1 => self.greater.pop()
split_greater_one(r) ==
  LET p == pop(r.greater)
  IN [ret |-> p.ret, node |-> [r EXCEPT !.greater = p.v], passes |-> <<>>]

\* mutant: the pivot is not swapped to split_idx
split_partition_noswap(greater) ==
  LET pivot_idx == Len(greater) - 1
      mid_idx == Len(greater) \div 2
      g1 == swap(greater, pivot_idx, mid_idx)
      pivot == g1[pivot_idx + 1]
      p == partition(SubSeq(g1, 1, pivot_idx), pivot)
  IN [greater |-> p.v \o <<pivot>>, split_idx |-> p.split_index]

\* split_greater, arm _: the vector after the pivot swap, the partition and
\* the swap of the pivot to split_idx
split_partition(greater) ==
  LET pivot_idx == Len(greater) - 1
      mid_idx == Len(greater) \div 2
      g1 == swap(greater, pivot_idx, mid_idx)
      pivot == g1[pivot_idx + 1]
      p == partition(SubSeq(g1, 1, pivot_idx), pivot)
      g2 == p.v \o <<pivot>>
  IN [greater |-> swap(g2, pivot_idx, p.split_index), split_idx |-> p.split_index]

\* mutant: the split also happens when nothing follows the pivot
has_less_or_none(greater, split_off_idx) == split_off_idx <= Len(greater)

\* split_greater: if split_off_idx < self.greater.len()
has_less(greater, split_off_idx) == split_off_idx < Len(greater)

\* The result of a next() call is [ret, node, passes]: the Option returned, the
\* node after the call, and a log of the partition passes the call executed,
\* outermost first.  A log entry holds the pool before the pass, the vector
\* after it, split_idx, the region split off (<<>> if none) and the child as
\* QuickSortInternal::new built it (None if none).
RECURSIVE split_greater(_, _)
RECURSIVE Recursive_next(_, _)
RECURSIVE QuickSortInternal_next(_, _)
split_greater(r, th) ==
  IF Len(r.greater) = 0 THEN split_greater_empty(r)
  ELSE IF Len(r.greater) = 1 THEN split_greater_one(r)
  ELSE LET s == split_partition(r.greater)
           split_off_idx == s.split_idx + 1
       IN IF has_less(s.greater, split_off_idx)
          THEN LET so == split_off(s.greater, split_off_idx)
                   less == QuickSortInternal_new(so.tail, th)
                   next == QuickSortInternal_next(less, th)
               IN [ret |-> next.ret,
                   node |-> [r EXCEPT !.greater = so.v, !.less = Some(next.node)],
                   passes |-> <<[pool |-> r.greater, greater |-> s.greater,
                                 split_idx |-> s.split_idx, tail |-> so.tail,
                                 child |-> Some(less)]>> \o next.passes]
          ELSE LET p == pop(s.greater)
               IN [ret |-> p.ret, node |-> [r EXCEPT !.greater = p.v],
                   passes |-> <<[pool |-> r.greater, greater |-> s.greater,
                                 split_idx |-> s.split_idx, tail |-> <<>>,
                                 child |-> None]>>]

\* mutant: the link of an exhausted child is kept
Recursive_next_keep_link(r, th) ==
  IF is_some(r.less)
  THEN LET next == QuickSortInternal_next(r.less[1], th)
       IN IF is_some(next.ret)
          THEN [ret |-> next.ret, node |-> [r EXCEPT !.less = Some(next.node)],
                passes |-> next.passes]
          ELSE LET p == pop(r.greater)
               IN [ret |-> p.ret, node |-> [r EXCEPT !.less = Some(next.node), !.greater = p.v],
                   passes |-> next.passes]
  ELSE split_greater(r, th)

\* mutant: the None of an exhausted child is returned instead of the pivot
Recursive_next_no_pop(r, th) ==
  IF is_some(r.less)
  THEN LET next == QuickSortInternal_next(r.less[1], th)
       IN IF is_some(next.ret)
          THEN [ret |-> next.ret, node |-> [r EXCEPT !.less = Some(next.node)],
                passes |-> next.passes]
          ELSE [ret |-> next.ret, node |-> [r EXCEPT !.less = None], passes |-> next.passes]
  ELSE split_greater(r, th)

\* mutant: a child that has just returned its last value is unlinked at once
Recursive_next_eager_clear(r, th) ==
  IF is_some(r.less)
  THEN LET next == QuickSortInternal_next(r.less[1], th)
       IN IF is_some(next.ret)
          THEN [ret |-> next.ret,
                node |-> [r EXCEPT !.less = IF next.node.kind = "Base" /\ next.node.v = <<>>
                                            THEN None ELSE Some(next.node)],
                passes |-> next.passes]
          ELSE LET p == pop(r.greater)
               IN [ret |-> p.ret, node |-> [r EXCEPT !.less = None, !.greater = p.v],
                   passes |-> next.passes]
  ELSE split_greater(r, th)

\* mutant: after an exhausted child the pool is split again instead of popped
Recursive_next_resplit(r, th) ==
  IF is_some(r.less)
  THEN LET next == QuickSortInternal_next(r.less[1], th)
       IN IF is_some(next.ret)
          THEN [ret |-> next.ret, node |-> [r EXCEPT !.less = Some(next.node)],
                passes |-> next.passes]
          ELSE split_greater([r EXCEPT !.less = None], th)
  ELSE split_greater(r, th)

\* Recursive::next
Recursive_next(r, th) ==
  IF is_some(r.less)
  THEN LET next == QuickSortInternal_next(r.less[1], th)
       IN IF is_some(next.ret)
          THEN [ret |-> next.ret, node |-> [r EXCEPT !.less = Some(next.node)],
                passes |-> next.passes]
          ELSE LET p == pop(r.greater)
               IN [ret |-> p.ret, node |-> [r EXCEPT !.less = None, !.greater = p.v],
                   passes |-> next.passes]
  ELSE split_greater(r, th)

\* QuickSortInternal::next
QuickSortInternal_next(n, th) ==
  IF n.kind = "Base"
  THEN LET p == pop(n.v) IN [ret |-> p.ret, node |-> Base(p.v), passes |-> <<>>]
  ELSE Recursive_next(n, th)

RECURSIVE Recursive_size_hint(_)
RECURSIVE QuickSortInternal_size_hint(_)
\* mutant: the child is not counted
Recursive_size_hint_nochild(r) == <<Len(r.greater), Some(Len(r.greater))>>

\* Recursive::size_hint
Recursive_size_hint(r) ==
  IF r.less = None THEN <<Len(r.greater), Some(Len(r.greater))>>
  ELSE LET h == QuickSortInternal_size_hint(r.less[1])
       IN <<h[1] + Len(r.greater),
            IF is_some(h[2]) THEN Some(h[2][1] + Len(r.greater)) ELSE None>>

\* QuickSortInternal::size_hint
QuickSortInternal_size_hint(n) ==
  IF n.kind = "Base" THEN <<Len(n.v), Some(Len(n.v))>> ELSE Recursive_size_hint(n)

\* ---------------------------------------------------------------- HeapSort
\* mutant: the order is not reversed
ReverseOrder_cmp_natural(self, other) == Cmp(self, other)

\* Ord for ReverseOrder<T>: other.0.cmp(&self.0)
ReverseOrder_cmp(self, other) == Cmp(other, self)

\* BinaryHeap::pop: removes the greatest item under ReverseOrder's Ord
BinaryHeap_pop(h) ==
  IF h = <<>> THEN [ret |-> None, h |-> h]
  ELSE LET i == CHOOSE k \in 1..Len(h) :
                  \A m \in 1..Len(h) : ReverseOrder_cmp(h[k], h[m]) # "Less"
       IN [ret |-> Some(h[i]), h |-> SubSeq(h, 1, i - 1) \o SubSeq(h, i + 1, Len(h))]

\* HeapSort::next
HeapSort_next(h) == BinaryHeap_pop(h)

\* mutant: the default size_hint of Iterator
HeapSort_size_hint_default(h) == <<0, None>>

\* HeapSort::size_hint
HeapSort_size_hint(h) == <<Len(h), Some(Len(h))>>

\* ------------------------------------------------------------------ state
VARIABLES input, threshold, inner, heap, qrets, hrets

vars == <<input, threshold, inner, heap, qrets, hrets>>

\* quick_sort() and heap_sort() on the same collected input
Init ==
  /\ \/ input \in SeqsUpTo(MaxLen) \cup {TestVec} /\ threshold \in Thresholds
     \/ input \in LongInputs /\ threshold = Threshold
  /\ inner = QuickSortInternal_new(input, threshold)
  /\ heap = input
  /\ qrets = <<>>
  /\ hrets = <<>>

\* QuickSort::next
QuickSort_next ==
  /\ Len(qrets) < Len(input) + ExtraCalls
  /\ LET r == QuickSortInternal_next(inner, threshold)
     IN /\ inner' = r.node
        /\ qrets' = Append(qrets, r.ret)
  /\ UNCHANGED <<input, threshold, heap, hrets>>

\* HeapSort::next
HeapSort_next_call ==
  /\ Len(hrets) < Len(input) + ExtraCalls
  /\ LET r == HeapSort_next(heap)
     IN /\ heap' = r.h
        /\ hrets' = Append(hrets, r.ret)
  /\ UNCHANGED <<input, threshold, inner, qrets>>

Next == QuickSort_next \/ HeapSort_next_call

Spec == Init /\ [][Next]_vars

\* ------------------------------------------------------- reference notions
Range(s) == {s[i] : i \in 1..Len(s)}

Count(s, x) == Cardinality({i \in 1..Len(s) : s[i] = x})

CountBelow(s, x) == Cardinality({i \in 1..Len(s) : s[i] < x})

\* the standard ascending sort: position i holds the value whose rank interval covers i
SortAsc(s) ==
  [i \in 1..Len(s) |->
     CHOOSE x \in Range(s) : CountBelow(s, x) < i /\ i <= CountBelow(s, x) + Count(s, x)]

SortDesc(s) == [i \in 1..Len(s) |-> SortAsc(s)[Len(s) + 1 - i]]

\* the values of the Some results of a call history, in call order
RECURSIVE Values(_)
Values(rets) ==
  IF rets = <<>> THEN <<>>
  ELSE IF is_some(rets[1]) THEN <<rets[1][1]>> \o Values(Tail(rets)) ELSE Values(Tail(rets))

\* a call history that has reached end-of-sequence
Drained(rets) == rets # <<>> /\ rets[Len(rets)] = None

\* every element still held along the whole less chain
RECURSIVE Held(_)
Held(n) ==
  IF n.kind = "Base" THEN n.v
  ELSE n.greater \o (IF is_some(n.less) THEN Held(n.less[1]) ELSE <<>>)

\* depth of the less chain below a node
RECURSIVE Depth(_)
Depth(n) ==
  IF n.kind = "Base" THEN 0
  ELSE IF is_some(n.less) THEN 1 + Depth(n.less[1]) ELSE 0

TestVecAsc == <<2, 2, 3, 4, 4, 4, 5, 6, 8>>

TestVecDesc == <<8, 6, 5, 4, 4, 4, 3, 2, 2>>

\* ------------------------------------------------------------------ claims

\* C1: draining quick_sort() (next() until None) yields the input in ascending
\* order, equal to the standard sort, on the Base and on the Recursive path.
C1_QuickSortAscending ==
  Drained(qrets) => Values(qrets) = SortAsc(input)

C1_Witness ==
  /\ Drained(qrets) /\ inner.kind = "Recursive" /\ threshold = Threshold
  /\ Len(input) = Threshold + 1
  /\ \E i, j \in 1..Len(input) : i # j /\ input[i] = input[j]

\* C2 (as stated): draining quick_sort() yields the input from largest to
\* smallest; the test vector comes out as [8,6,5,4,4,4,3,2,2].
C2_QuickSortDescending ==
  Drained(qrets) =>
    /\ Values(qrets) = SortDesc(input)
    /\ input = TestVec => Values(qrets) = TestVecDesc

\* C2 (amended): successive next() results of quick_sort() never decrease, and
\* the test vector comes out as [2,2,3,4,4,4,5,6,8].
C2_QuickSortNonDecreasing ==
  LET out == Values(qrets)
  IN /\ \A i \in 1..(Len(out) - 1) : out[i] <= out[i + 1]
     /\ (Drained(qrets) /\ input = TestVec) => out = TestVecAsc

C2_Witness ==
  /\ input = TestVec /\ Drained(qrets) /\ inner.kind = "Recursive"
  /\ Values(qrets) = TestVecAsc

\* C3: draining heap_sort() yields the input in ascending order, every next()
\* returns the minimum of what the heap held, and the test vector comes out as
\* [2,2,3,4,4,4,5,6,8].
C3_HeapSortAscending ==
  /\ Drained(hrets) => Values(hrets) = SortAsc(input)
  /\ \A i \in 1..Len(Values(hrets)) : \A j \in 1..Len(heap) : Values(hrets)[i] <= heap[j]
  /\ (Drained(hrets) /\ input = TestVec) => Values(hrets) = TestVecAsc

C3_Witness ==
  input = TestVec /\ Drained(hrets) /\ Values(hrets) = TestVecAsc

\* C4: after any number of calls the values returned so far are the first
\* elements of the sorted input, and none exceeds an element not yet produced,
\* for quick_sort() and for heap_sort().
C4_PrefixCorrect ==
  LET qo == Values(qrets)
      ho == Values(hrets)
      held == Held(inner)
  IN /\ Len(qo) <= Len(input) /\ qo = SubSeq(SortAsc(input), 1, Len(qo))
     /\ Len(ho) <= Len(input) /\ ho = SubSeq(SortAsc(input), 1, Len(ho))
     /\ \A i \in 1..Len(qo) : \A j \in 1..Len(held) : qo[i] <= held[j]
     /\ \A i \in 1..Len(ho) : \A j \in 1..Len(heap) : ho[i] <= heap[j]

C4_Witness ==
  /\ Len(Values(qrets)) = 2 /\ Len(Values(hrets)) = 2 /\ Len(input) = 4
  /\ ~Drained(qrets) /\ Depth(inner) >= 1
  /\ Cardinality(Range(input)) >= 2

\* C5: size_hint() is (n - i, Some(n - i)) where i counts the values produced
\* so far, in every shape of the quicksort iterator and for the heap.
C5_SizeHintExact ==
  LET qn == Len(input) - Len(Values(qrets))
      hn == Len(input) - Len(Values(hrets))
  IN /\ QuickSortInternal_size_hint(inner) = <<qn, Some(qn)>>
     /\ HeapSort_size_hint(heap) = <<hn, Some(hn)>>
     /\ Len(Values(qrets)) = IF Len(qrets) <= Len(input) THEN Len(qrets) ELSE Len(input)
     /\ Len(Values(hrets)) = IF Len(hrets) <= Len(input) THEN Len(hrets) ELSE Len(input)

\* a child that is still linked but already empty, below a nested chain
C5_Witness ==
  /\ Depth(inner) >= 2
  /\ \/ Held(inner.less[1].less[1]) = <<>>
     \/ Held(inner.less[1]) = <<>>
  /\ Len(hrets) >= 1

\* C6: once next() has returned None, every later next() returns None and
\* leaves the iterator as it was (no child created, no buffer changed, size
\* hint still (0, Some(0))), for both strategies.
C6_IdempotentDraining ==
  [][/\ (Drained(qrets) /\ qrets' # qrets) =>
          /\ qrets'[Len(qrets')] = None
          /\ inner' = inner
          /\ QuickSortInternal_size_hint(inner') = <<0, Some(0)>>
     /\ (Drained(hrets) /\ hrets' # hrets) =>
          /\ hrets'[Len(hrets')] = None
          /\ heap' = heap
          /\ HeapSort_size_hint(heap') = <<0, Some(0)>>]_vars

C6_Witness ==
  /\ Len(input) >= 2 /\ inner.kind = "Recursive"
  /\ Len(qrets) = Len(input) + 2 /\ Len(hrets) = Len(input) + 2
  /\ qrets[Len(qrets) - 1] = None /\ hrets[Len(hrets) - 1] = None

\* C7: on an empty input every next() returns None, starting with the first,
\* the size hint is (0, Some(0)) before and after, and nothing is collected.
C7_EmptyInput ==
  input = <<>> =>
    /\ \A i \in 1..Len(qrets) : qrets[i] = None
    /\ \A i \in 1..Len(hrets) : hrets[i] = None
    /\ QuickSortInternal_size_hint(inner) = <<0, Some(0)>>
    /\ HeapSort_size_hint(heap) = <<0, Some(0)>>
    /\ Values(qrets) = <<>> /\ Values(hrets) = <<>>

C7_Witness ==
  input = <<>> /\ Len(qrets) >= 1 /\ Len(hrets) >= 1 /\ threshold = Threshold

\* C8: on the same input the i-th next() of quick_sort() and the i-th next()
\* of heap_sort() return the same result, value or None, for every i.
C8_CrossStrategy ==
  \A i \in 1..Len(qrets) : i <= Len(hrets) => qrets[i] = hrets[i]

C8_Witness ==
  /\ Drained(qrets) /\ Drained(hrets) /\ Len(qrets) = Len(hrets)
  /\ inner.kind = "Recursive" /\ Cardinality(Range(input)) >= 3

\* k calls of next() from a node: the results and the node reached
RECURSIVE Run(_, _, _)
Run(n, th, k) ==
  IF k = 0 THEN [rets |-> <<>>, node |-> n]
  ELSE LET r == QuickSortInternal_next(n, th)
           rest == Run(r.node, th, k - 1)
       IN [rets |-> <<r.ret>> \o rest.rets, node |-> rest.node]

\* C9: built with any other threshold (0, 1, the code's 32, the input length),
\* the iterator returns the same results call by call and reports the same
\* size hint after every call.
C9_ThresholdIndependent ==
  \A t \in Thresholds \cup {Len(input)} :
    LET run == Run(QuickSortInternal_new(input, t), t, Len(qrets))
    IN /\ run.rets = qrets
       /\ QuickSortInternal_size_hint(run.node) = QuickSortInternal_size_hint(inner)

C9_Witness ==
  /\ threshold = 0 /\ Depth(inner) >= 2 /\ Len(Values(qrets)) >= 2
  /\ Run(QuickSortInternal_new(input, Threshold), Threshold, Len(qrets)).node.kind = "Base"
  /\ Cardinality(Range(input)) >= 2

\* C10: the values returned so far together with the elements held in every
\* buffer of the less chain are the input as a multiset.
C10_Conservation ==
  LET all == Values(qrets) \o Held(inner)
  IN /\ Len(all) = Len(input)
     /\ \A x \in Range(input) \cup Range(all) : Count(all, x) = Count(input, x)

C10_Witness ==
  /\ Depth(inner) >= 2 /\ Len(Values(qrets)) >= 1 /\ Held(inner) # <<>>
  /\ \E i, j \in 1..Len(input) : i # j /\ input[i] = input[j]

\* ------------------------------------------------- the less chain, the call
\* the nodes along the less chain, the root first
RECURSIVE Chain(_)
Chain(n) ==
  IF n.kind = "Recursive" /\ is_some(n.less) THEN <<n>> \o Chain(n.less[1]) ELSE <<n>>

\* the pivot kept by a node that has a less child
PivotOf(n) == n.greater[Len(n.greater)]

\* what the next call of next() on the quicksort iterator does from this state
NextCall == QuickSortInternal_next(inner, threshold)

\* the children a call creates, read off its pass log
RECURSIVE Created(_)
Created(passes) ==
  IF passes = <<>> THEN 0
  ELSE (IF is_some(passes[1].child) THEN 1 ELSE 0) + Created(Tail(passes))

C12_DeferredPivot ==
  [][qrets' # qrets =>
      LET ch == Chain(inner)
          chn == Chain(inner')
          passes == NextCall.passes
      IN /\ \A k \in 1..(Len(ch) - 1) :
              /\ ch[k].greater # <<>>
              /\ \A j \in 1..Len(ch[k].greater) : PivotOf(ch[k]) <= ch[k].greater[j]
              /\ \A j \in 1..Len(Held(ch[k + 1])) : Held(ch[k + 1])[j] <= PivotOf(ch[k])
              /\ IF QuickSortInternal_next(ch[k + 1], threshold).ret = None
                 THEN /\ Held(ch[k + 1]) = <<>>
                      /\ qrets'[Len(qrets')] = Some(PivotOf(ch[k]))
                      /\ Len(chn) = k
                      /\ chn[k].less = None
                      /\ chn[k].greater = SubSeq(ch[k].greater, 1, Len(ch[k].greater) - 1)
                      /\ \A j \in 1..Len(chn[k].greater) : PivotOf(ch[k]) <= chn[k].greater[j]
                 ELSE /\ Len(chn) >= k + 1
                      /\ chn[k].greater = ch[k].greater
         /\ \A i \in 1..Len(passes) :
              is_some(passes[i].child) =>
                LET level == Len(ch) + i - 1
                IN /\ Len(chn) > level
                   /\ chn[level].greater # <<>>
                   /\ PivotOf(chn[level]) = passes[i].pool[(Len(passes[i].pool) \div 2) + 1]]_vars

\* a nested pivot has just been returned after its child ran empty
C12_Witness ==
  /\ Depth(inner) >= 1 /\ Len(qrets) >= 3
  /\ Run(QuickSortInternal_new(input, threshold), threshold, Len(qrets) - 1).node # inner
  /\ Depth(Run(QuickSortInternal_new(input, threshold), threshold, Len(qrets) - 1).node)
       = Depth(inner) + 1
  /\ Cardinality(Range(input)) >= 2

\* C13: next() returns None exactly when nothing remains (size hint
\* (0, Some(0))); a child split off is never empty and its first next()
\* returns a value; a node with a child always has its pivot left to pop.
C13_NoPrematureNone ==
  [][qrets' # qrets =>
      LET ch == Chain(inner)
          passes == NextCall.passes
      IN /\ (qrets'[Len(qrets')] = None) <=> (QuickSortInternal_size_hint(inner) = <<0, Some(0)>>)
         /\ (qrets'[Len(qrets')] = None) <=> (Held(inner) = <<>>)
         /\ \A i \in 1..Len(passes) :
              is_some(passes[i].child) =>
                /\ passes[i].tail # <<>>
                /\ is_some(QuickSortInternal_next(passes[i].child[1], threshold).ret)
         /\ \A k \in 1..(Len(ch) - 1) : is_some(pop(ch[k].greater).ret)]_vars

\* the call before returned the last value of a child that is still linked,
\* so the call that follows finds it empty and pops the pivot
C13_Witness ==
  /\ Depth(inner) >= 1 /\ Held(inner) # <<>>
  /\ Held(Chain(inner)[Len(Chain(inner))]) = <<>>
  /\ Len(qrets) >= 1 /\ is_some(qrets[Len(qrets)])
  /\ threshold = Threshold

\* the pivot of a partition pass: the middle element (index len / 2) of its pool
PassPivot(pass) == pass.pool[(Len(pass.pool) \div 2) + 1]

\* C14: after a partition pass over a pool of at least two elements, the
\* elements below the boundary are strictly greater than the pivot, the pivot
\* sits at the boundary, the elements above it are not greater than the pivot,
\* and the boundary is the number of elements strictly greater than the pivot.
C14_PartitionStep ==
  [][qrets' # qrets =>
      \A i \in 1..Len(NextCall.passes) :
        LET pass == NextCall.passes[i]
            g == pass.greater
            b == pass.split_idx
        IN /\ Len(pass.pool) >= 2 /\ Len(g) = Len(pass.pool)
           /\ b \in 0..(Len(g) - 1)
           /\ \A j \in 1..b : g[j] > PassPivot(pass)
           /\ g[b + 1] = PassPivot(pass)
           /\ \A j \in (b + 2)..Len(g) : g[j] <= PassPivot(pass)
           /\ b = Cardinality({j \in 1..Len(pass.pool) : pass.pool[j] > PassPivot(pass)})]_vars

\* the first call split the input: elements greater than the pivot stay in
\* front of it, an element equal to it went to the child
C14_Witness ==
  /\ Len(qrets) = 1 /\ inner.kind = "Recursive" /\ is_some(inner.less)
  /\ Len(inner.greater) >= 2
  /\ \E j \in 1..Len(Held(inner.less[1])) : Held(inner.less[1])[j] = PivotOf(inner)
  /\ threshold < Threshold

\* non-increasing from the first to the last element
DescSorted(v) == \A j \in 1..(Len(v) - 1) : v[j] >= v[j + 1]

\* the node QuickSortInternal::new is to build from a pool
FollowsRule(n, pool) ==
  IF Len(pool) <= threshold
  THEN n.kind = "Base" /\ Len(n.v) = Len(pool) /\ DescSorted(n.v)
  ELSE n.kind = "Recursive" /\ n.greater = pool /\ n.less = None

\* C15: the initial input and every region split off become a Base when not
\* longer than the threshold and a Recursive without child otherwise, and every
\* Base buffer in the chain is in non-increasing order, its last element its
\* minimum.
C15_Representation ==
  /\ qrets = <<>> => FollowsRule(inner, input)
  /\ \A i \in 1..Len(NextCall.passes) :
       is_some(NextCall.passes[i].child) =>
         FollowsRule(NextCall.passes[i].child[1], NextCall.passes[i].tail)
  /\ \A k \in 1..Len(Chain(inner)) :
       LET n == Chain(inner)[k]
       IN n.kind = "Base" =>
            /\ DescSorted(n.v)
            /\ k = Len(Chain(inner))
            /\ \A j \in 1..Len(n.v) : n.v[Len(n.v)] <= n.v[j]

\* under the threshold 32 a split has left a Base child of several elements
C15_Witness ==
  /\ threshold = Threshold /\ Depth(inner) = 1
  /\ inner.less[1].kind = "Base" /\ Len(inner.less[1].v) >= 2
  /\ Cardinality(Range(inner.less[1].v)) >= 2

\* the less children a call adds to the chain
Added(before, after) == IF Depth(after) > Depth(before) THEN Depth(after) - Depth(before) ELSE 0

\* C16 (as stated): a next() call performs at most one partition pass over the
\* whole nested structure (stated for the iterator built with the threshold of
\* the code).
C16_OnePassPerCall ==
  [][(qrets' # qrets /\ threshold = Threshold) => Len(NextCall.passes) <= 1]_vars

\* C16 (amended): a next() call performs at most one partition pass per node:
\* one in the childless Recursive node at the end of the less chain and one in
\* each Recursive child created during the call, each on the region the pass
\* before split off, so at most one more than the children the call creates.
C16_OnePassPerNode ==
  [][qrets' # qrets =>
      LET passes == NextCall.passes
      IN /\ Len(passes) <= Added(inner, inner') + 1
         /\ \A i \in 1..(Len(passes) - 1) : passes[i + 1].pool = passes[i].tail
         /\ passes # <<>> =>
              LET bottom == Chain(inner)[Len(Chain(inner))]
              IN bottom.kind = "Recursive" /\ passes[1].pool = bottom.greater]_vars

\* under the threshold 32 the first call has split the input and then the child
C16_Witness ==
  /\ threshold = Threshold /\ Len(qrets) = 1 /\ Depth(inner) >= 2
  /\ Len(input) > Threshold

\* C17: a child created by a split holds at least one element and fewer than
\* the pool that was split, the pivot staying in the parent; the depth of the
\* less chain never exceeds the number of elements held; a call makes fewer
\* passes than its first pool has elements; the iterator is empty exactly
\* after as many value-returning calls as the input has elements.
C17_ChildrenShrink ==
  [][qrets' # qrets =>
      LET passes == NextCall.passes
      IN /\ \A i \in 1..Len(passes) :
              /\ Len(passes[i].tail) < Len(passes[i].pool)
              /\ is_some(passes[i].child) => Len(passes[i].tail) >= 1
              /\ is_some(passes[i].child) => Len(Held(passes[i].child[1])) = Len(passes[i].tail)
         /\ passes # <<>> => Len(passes) < Len(passes[1].pool)
         /\ Depth(inner') <= Len(Held(inner')) /\ Depth(inner') <= Len(input)
         /\ Len(Values(qrets')) <= Len(input)
         /\ (Held(inner') = <<>>) <=> (Len(Values(qrets')) = Len(input))
         /\ qrets'[Len(qrets')] = None => Len(Values(qrets)) = Len(input)]_vars

\* the first call has built a chain of three nested children
C17_Witness ==
  Len(qrets) = 1 /\ Depth(inner) >= 3 /\ is_some(qrets[1])

\* the node the iterator was in before its latest call
Previous == Run(QuickSortInternal_new(input, threshold), threshold, Len(qrets) - 1).node

\* C18: when a node has a less child and the child's next() returns a value,
\* the node returns that value, keeps its greater buffer as it is and keeps
\* the link; only the child changes, into what its own next() leaves.
C18_DelegationFrame ==
  [][qrets' # qrets =>
      LET ch == Chain(inner)
          chn == Chain(inner')
      IN \A k \in 1..(Len(ch) - 1) :
           LET c == QuickSortInternal_next(ch[k + 1], threshold)
           IN is_some(c.ret) =>
                /\ qrets'[Len(qrets')] = c.ret
                /\ Len(chn) >= k + 1
                /\ chn[k].greater = ch[k].greater
                /\ chn[k].less = Some(c.node)]_vars

\* the latest call was delegated to the child of the root, which changed
C18_Witness ==
  /\ Len(qrets) >= 2 /\ is_some(qrets[Len(qrets)])
  /\ inner.kind = "Recursive" /\ is_some(inner.less)
  /\ Previous.kind = "Recursive" /\ is_some(Previous.less)
  /\ Previous.greater = inner.greater /\ Previous.less # inner.less
  /\ Len(inner.greater) >= 2

\* C19: built from an input longer than the threshold the iterator is a
\* Recursive holding the elements in input order with no child, no pass made;
\* the chain grows only in a call that makes a partition pass, by exactly the
\* children its passes split off, at most one per pass.
C19_LazyCreation ==
  [][/\ (qrets = <<>> /\ Len(input) > threshold) =>
          inner = [kind |-> "Recursive", greater |-> input, less |-> None]
     /\ qrets' # qrets =>
          LET passes == NextCall.passes
          IN /\ Created(passes) <= Len(passes)
             /\ Added(inner, inner') = Created(passes)
             /\ passes = <<>> => Depth(inner') <= Depth(inner)
             /\ \A i \in 1..Len(passes) :
                  is_some(passes[i].child) <=> passes[i].tail # <<>>
     /\ qrets' = qrets => inner' = inner]_vars

\* under the threshold 32: built without a child, and a child after one call
C19_Witness ==
  /\ threshold = Threshold /\ Len(input) = Threshold + 4
  /\ Len(qrets) = 1 /\ Depth(inner) >= 1
  /\ QuickSortInternal_new(input, threshold).less = None
  /\ QuickSortInternal_new(input, threshold).greater = input
  /\ hrets = <<>>

\* the sort of a pool is a non-increasing rearrangement of it in which equal
\* elements keep the order of their original positions
StableSorted(pool) ==
  LET t == insertion_sort_tracked(pool)
  IN /\ t.v = insertion_sort(pool)
     /\ DescSorted(t.v)
     /\ Len(t.pos) = Len(pool) /\ Range(t.pos) = 1..Len(pool)
     /\ \A k \in 1..Len(pool) : t.v[k] = pool[t.pos[k]]
     /\ \A a, b \in 1..Len(pool) : (a < b /\ t.v[a] = t.v[b]) => t.pos[a] < t.pos[b]

\* C20: every pool that QuickSortInternal::new sorts with insertion_sort (the
\* input or a region split off, when not longer than the threshold) comes out
\* as a permutation in non-increasing order in which equal elements keep their
\* relative order.
C20_FallbackStable ==
  /\ Len(input) <= threshold =>
       /\ StableSorted(input)
       /\ qrets = <<>> => inner = Base(insertion_sort_tracked(input).v)
  /\ \A i \in 1..Len(NextCall.passes) :
       LET pass == NextCall.passes[i]
       IN (is_some(pass.child) /\ Len(pass.tail) <= threshold) =>
            /\ StableSorted(pass.tail)
            /\ pass.child[1] = Base(insertion_sort_tracked(pass.tail).v)

\* a pool with repeated values that the sort has to rearrange
C20_Witness ==
  /\ qrets = <<>> /\ hrets = <<>> /\ inner.kind = "Base" /\ Len(input) >= 3
  /\ ~DescSorted(input)
  /\ \E a, b \in 1..Len(input) : a < b /\ input[a] = input[b]
  /\ insertion_sort_tracked(input).pos # [k \in 1..Len(input) |-> k]

====
